---- MODULE Spec2Model ----
(***************************************************************************)
(* Model of two units of the repository:                                   *)
(*   - the EventBridgeContract class (its constructor and the JavaScript   *)
(*     arrays its fields refer to), specification Spec;                    *)
(*   - the uploadContracts deployment hook, specification SpecUpload.      *)
(* JavaScript arrays are heap objects: a field holds an address, and two   *)
(* fields holding the same address see each other's mutations.             *)
(***************************************************************************)
EXTENDS Integers, Sequences, FiniteSets, TLC

\* ---------------------------------------------------------------- bounds
MaxLen == 2            \* longest array the caller builds or grows
MaxDescs == 2          \* constructor calls
MaxMutations == 1      \* array mutations performed after construction

\* ---------------------------------------------------------------- inputs
SourceNames == {"order-service", "billing"}
EventTypes == {"", "OrderCreated"}
ContractIds == {"c1", "c2"}   \* ids of the contracts a service declares
Schemas == {"zodSchema", "undefined"}

VARIABLES
  arrays,        \* the heap of JavaScript arrays: address (index) -> contents
  callerArrays,  \* address of the array S the caller created and still holds
  descs,         \* the constructed EventBridgeContract objects, in call order
  calls,         \* for each constructor call: the arguments the caller passed
  thrown,        \* number of constructor calls that raised an exception
  nMut,          \* number of array mutations performed so far
  \* ---- uploadContracts
  pc,            \* position of the async function uploadContracts
  shouldNotDeploy, \* serverless.service.provider.shouldNotDeploy
  localContracts,  \* the service's declared contracts: id -> content
  contracts,       \* local `contracts` (result of listLocalContracts)
  bucketName,      \* local `bucketName`
  gitCommit,       \* local `gitCommit`
  gitResult,       \* settlement of the promise returned by git.revparse
  uploadResult,    \* settlement of the promise returned by provider.request
  storeAtRead,     \* the declared contracts as they were at listLocalContracts
  storeAtHash,     \* the declared contracts as they were when the hash was taken
  revparseCalls,   \* number of git.revparse('HEAD') calls issued
  requests,        \* params of every provider.request('S3','upload',..) issued
  logs,            \* messages passed to serverless.cli.log
  outcome          \* settlement of the promise returned by uploadContracts

contractVars == <<arrays, callerArrays, descs, calls, thrown, nMut>>
uploadVars == <<pc, shouldNotDeploy, localContracts, contracts, bucketName,
                gitCommit, gitResult, uploadResult, storeAtRead, storeAtHash,
                revparseCalls, requests, logs, outcome>>
vars == <<arrays, callerArrays, descs, calls, thrown, nMut,
          pc, shouldNotDeploy, localContracts, contracts, bucketName,
          gitCommit, gitResult, uploadResult, storeAtRead, storeAtHash,
          revparseCalls, requests, logs, outcome>>

\* All sequences over S of length at most n.
RECURSIVE SeqsUpTo(_, _)
SeqsUpTo(S, n) ==
  IF n = 0 THEN {<<>>}
  ELSE LET shorter == SeqsUpTo(S, n - 1)
       IN shorter \cup {Append(s, x) : s \in {t \in shorter : Len(t) = n - 1}, x \in S}

\* ------------------------------------------------- EventBridgeContract

\* Mutant: the constructor copies `sources` three times instead of storing it.
Constructor_Copying(heap, id, sources, eventType, payloadSchema) ==
  LET n == Len(heap) IN
  [threw |-> FALSE,
   heap |-> heap \o <<heap[sources], heap[sources], heap[sources],
                      <<eventType>>, <<eventType>> >>,
   this |-> [id |-> id,
             contractType |-> "eventBridge",
             sources |-> n + 1,
             eventType |-> eventType,
             payloadSchema |-> payloadSchema,
             nativePattern |-> ("source" :> (n + 2) @@ "detail-type" :> (n + 4)),
             pattern |-> [source |-> n + 3, detailType |-> n + 5]]]

\* Mutant: the discriminator tag is taken from the event type.
Constructor_TagFromType(heap, id, sources, eventType, payloadSchema) ==
  LET n == Len(heap) IN
  [threw |-> FALSE,
   heap |-> heap \o << <<eventType>>, <<eventType>> >>,
   this |-> [id |-> id,
             contractType |-> eventType,
             sources |-> sources,
             eventType |-> eventType,
             payloadSchema |-> payloadSchema,
             nativePattern |-> ("source" :> sources @@ "detail-type" :> (n + 1)),
             pattern |-> [source |-> sources, detailType |-> n + 2]]]

\* Mutant: the constructor validates its inputs and throws on an empty one.
Constructor_RejectEmpty(heap, id, sources, eventType, payloadSchema) ==
  LET n == Len(heap) IN
  [threw |-> (heap[sources] = <<>> \/ eventType = ""),
   heap |-> heap \o << <<eventType>>, <<eventType>> >>,
   this |-> [id |-> id,
             contractType |-> "eventBridge",
             sources |-> sources,
             eventType |-> eventType,
             payloadSchema |-> payloadSchema,
             nativePattern |-> ("source" :> sources @@ "detail-type" :> (n + 1)),
             pattern |-> [source |-> sources, detailType |-> n + 2]]]

\* Mutant: an empty event type is dropped from the detail-type sequences.
Constructor_DropEmptyType(heap, id, sources, eventType, payloadSchema) ==
  LET n == Len(heap)
      dt == IF eventType = "" THEN <<>> ELSE <<eventType>> IN
  [threw |-> FALSE,
   heap |-> heap \o <<dt, dt>>,
   this |-> [id |-> id,
             contractType |-> "eventBridge",
             sources |-> sources,
             eventType |-> eventType,
             payloadSchema |-> payloadSchema,
             nativePattern |-> ("source" :> sources @@ "detail-type" :> (n + 1)),
             pattern |-> [source |-> sources, detailType |-> n + 2]]]

\* Mutant: the `sources` field keeps a copy ([...sources]) of the argument.
Constructor_CopySources(heap, id, sources, eventType, payloadSchema) ==
  LET n == Len(heap) IN
  [threw |-> FALSE,
   heap |-> heap \o << <<eventType>>, <<eventType>>, heap[sources] >>,
   this |-> [id |-> id,
             contractType |-> "eventBridge",
             sources |-> n + 3,
             eventType |-> eventType,
             payloadSchema |-> payloadSchema,
             nativePattern |-> ("source" :> sources @@ "detail-type" :> (n + 1)),
             pattern |-> [source |-> sources, detailType |-> n + 2]]]

\* Mutant: pattern.source is a reversed copy of the sources.
Constructor_Reversed(heap, id, sources, eventType, payloadSchema) ==
  LET n == Len(heap)
      s == heap[sources]
      rev == [i \in 1..Len(s) |-> s[Len(s) + 1 - i]] IN
  [threw |-> FALSE,
   heap |-> heap \o << <<eventType>>, <<eventType>>, rev >>,
   this |-> [id |-> id,
             contractType |-> "eventBridge",
             sources |-> sources,
             eventType |-> eventType,
             payloadSchema |-> payloadSchema,
             nativePattern |-> ("source" :> sources @@ "detail-type" :> (n + 1)),
             pattern |-> [source |-> n + 3, detailType |-> n + 2]]]

\* new EventBridgeContract({id, sources, eventType, payloadSchema}).
\* `sources` is the address of the caller's array; the four arguments are
\* stored as they are, and each of the two array literals [eventType]
\* allocates a fresh array.  The constructor has no throw statement.
Constructor(heap, id, sources, eventType, payloadSchema) ==
  LET n == Len(heap) IN
  [threw |-> FALSE,
   heap |-> heap \o << <<eventType>>, <<eventType>> >>,
   this |-> [id |-> id,
             contractType |-> "eventBridge",
             sources |-> sources,
             eventType |-> eventType,
             payloadSchema |-> payloadSchema,
             nativePattern |-> ("source" :> sources @@ "detail-type" :> (n + 1)),
             pattern |-> [source |-> sources, detailType |-> n + 2]]]

\* The array operations a holder of a string[] can perform: push(v), pop()
\* and [i] = v, with v a string that no array holds at first.
NewValues == {"audit"}
ArrayOps ==
  [kind : {"push"}, v : NewValues, i : {0}]
    \cup [kind : {"pop"}, v : {""}, i : {0}]
    \cup [kind : {"set"}, v : NewValues, i : 1..(MaxLen + 1)]

OpEnabled(s, op) ==
  CASE op.kind = "push" -> Len(s) < MaxLen + 1
    [] op.kind = "pop" -> Len(s) > 0
    [] op.kind = "set" -> op.i <= Len(s)

ApplyOp(s, op) ==
  CASE op.kind = "push" -> Append(s, op.v)
    [] op.kind = "pop" -> SubSeq(s, 1, Len(s) - 1)
    [] op.kind = "set" -> [s EXCEPT ![op.i] = op.v]

\* The array a path of descriptor d leads to.
StoredPaths == {"sources", "nativePattern.source", "nativePattern.detail-type",
                "pattern.source", "pattern.detailType"}
SourcePaths == {"sources", "nativePattern.source", "pattern.source"}
DetailPaths == {"nativePattern.detail-type", "pattern.detailType"}

AddrOf(obj, path) ==
  CASE path = "sources" -> obj.sources
    [] path = "nativePattern.source" -> obj.nativePattern["source"]
    [] path = "nativePattern.detail-type" -> obj.nativePattern["detail-type"]
    [] path = "pattern.source" -> obj.pattern.source
    [] path = "pattern.detailType" -> obj.pattern.detailType

\* The contents seen through a path of descriptor d.
View(d, path) == arrays[AddrOf(descs[d], path)]

\* The caller writes the array literal S it will pass as `sources`.
NewArray(s) ==
  /\ callerArrays = {}
  /\ arrays' = Append(arrays, s)
  /\ callerArrays' = callerArrays \cup {Len(arrays) + 1}
  /\ UNCHANGED <<descs, calls, thrown, nMut>>
  /\ UNCHANGED uploadVars

\* The id of the k-th contract: ids are unique, as the constructor's
\* documentation asks of the caller.
IdOf(k) == "c" \o ToString(k)

\* The caller constructs a contract from its array.
Construct(a, eventType, payloadSchema) ==
  /\ Len(calls) < MaxDescs
  /\ a \in callerArrays
  /\ LET id == IdOf(Len(calls) + 1)
         r == Constructor(arrays, id, a, eventType, payloadSchema) IN
       /\ calls' = Append(calls, [id |-> id, sources |-> a, S |-> arrays[a],
                                  eventType |-> eventType,
                                  payloadSchema |-> payloadSchema,
                                  obj |-> IF r.threw THEN 0 ELSE Len(descs) + 1])
       /\ IF r.threw
            THEN /\ thrown' = thrown + 1
                 /\ UNCHANGED <<arrays, descs>>
            ELSE /\ arrays' = r.heap
                 /\ descs' = Append(descs, r.this)
                 /\ UNCHANGED thrown
  /\ UNCHANGED <<callerArrays, nMut>>
  /\ UNCHANGED uploadVars

\* The caller mutates one of its own arrays (S.push(x), S.pop(), S[i] = x).
MutateCaller(a, op) ==
  /\ nMut < MaxMutations
  /\ a \in callerArrays
  /\ OpEnabled(arrays[a], op)
  /\ arrays' = [arrays EXCEPT ![a] = ApplyOp(arrays[a], op)]
  /\ nMut' = nMut + 1
  /\ UNCHANGED <<callerArrays, descs, calls, thrown>>
  /\ UNCHANGED uploadVars

\* Some code mutates an array reached through a descriptor's public field
\* (contract.pattern.source.push(x), ...).
MutateStored(d, path, op) ==
  /\ nMut < MaxMutations
  /\ d \in 1..Len(descs)
  /\ OpEnabled(View(d, path), op)
  /\ arrays' = [arrays EXCEPT ![AddrOf(descs[d], path)] = ApplyOp(View(d, path), op)]
  /\ nMut' = nMut + 1
  /\ UNCHANGED <<callerArrays, descs, calls, thrown>>
  /\ UNCHANGED uploadVars

\* The state of the hook before uploadContracts is called, for the given
\* serverless instance.
UploadIdle(flag, store) ==
  /\ pc = "idle"
  /\ shouldNotDeploy = flag
  /\ localContracts = store
  /\ contracts = <<>>
  /\ bucketName = ""
  /\ gitCommit = ""
  /\ gitResult = "none"
  /\ uploadResult = "none"
  /\ storeAtRead = store
  /\ storeAtHash = store
  /\ revparseCalls = 0
  /\ requests = <<>>
  /\ logs = <<>>
  /\ outcome = "pending"

NoContracts == [id \in ContractIds |-> "absent"]

Init ==
  /\ arrays = <<>>
  /\ callerArrays = {}
  /\ descs = <<>>
  /\ calls = <<>>
  /\ thrown = 0
  /\ nMut = 0
  /\ UploadIdle(FALSE, NoContracts)

Next ==
  \/ \E s \in SeqsUpTo(SourceNames, MaxLen) : NewArray(s)
  \/ \E a \in callerArrays, e \in EventTypes, p \in Schemas : Construct(a, e, p)
  \/ \E a \in callerArrays, op \in ArrayOps : MutateCaller(a, op)
  \/ \E d \in 1..Len(descs), path \in StoredPaths, op \in ArrayOps :
       MutateStored(d, path, op)

Spec == Init /\ [][Next]_vars

\* ------------------------------------------- properties of the contract

\* Constructor calls that returned an object, and the object of call k.
Built == {k \in 1..Len(calls) : calls[k].obj # 0}
Obj(k) == calls[k].obj

SameInputs(k1, k2) ==
  /\ calls[k1].sources = calls[k2].sources
  /\ calls[k1].eventType = calls[k2].eventType

PatternPaths == StoredPaths \ {"sources"}

\* This step is a mutation made through path `path` of descriptor d.
MutatedThrough(d, path) ==
  /\ nMut' = nMut + 1
  /\ arrays'[AddrOf(descs[d], path)] # arrays[AddrOf(descs[d], path)]

C4_DetailTypeIsSingleton ==
  [][ \A a \in callerArrays, e \in EventTypes, p \in Schemas :
        Construct(a, e, p) =>
          /\ Len(descs') = Len(descs) + 1
          /\ \A path \in DetailPaths :
               /\ arrays'[AddrOf(descs'[Len(descs')], path)] = <<e>>
               /\ Len(arrays'[AddrOf(descs'[Len(descs')], path)]) = 1 ]_vars

\* Descriptors built with the empty and with a non-empty event type.
C4_Witness ==
  /\ nMut = 0
  /\ \E k \in Built : calls[k].eventType = "" /\ View(Obj(k), "pattern.detailType") = <<"">>
  /\ \E k \in Built : calls[k].eventType # ""

\* C8: contractType of every constructed descriptor is "eventBridge".
C8_ContractTypeLiteral ==
  \A d \in 1..Len(descs) : descs[d].contractType = "eventBridge"

\* Two descriptors that differ in id, event type and payload schema.
C8_Witness ==
  \E d1, d2 \in 1..Len(descs) :
    /\ descs[d1].id # descs[d2].id
    /\ descs[d1].eventType # descs[d2].eventType
    /\ descs[d1].payloadSchema # descs[d2].payloadSchema

\* C9: no constructor call throws; a call with an empty sources array and
\* an empty event type returns a descriptor whose source sequences are empty
\* and whose detail-type and detailType are <<eventType>>.
C9_ConstructionNeverFails ==
  /\ thrown = 0
  /\ \A k \in 1..Len(calls) :
       /\ calls[k].obj # 0
       /\ (nMut = 0 /\ calls[k].S = <<>>) =>
            /\ View(Obj(k), "nativePattern.source") = <<>>
            /\ View(Obj(k), "pattern.source") = <<>>
            /\ View(Obj(k), "nativePattern.detail-type") = <<calls[k].eventType>>
            /\ View(Obj(k), "pattern.detailType") = <<calls[k].eventType>>

\* A call with an empty sources array and an empty event type was made.
C9_Witness ==
  \E k \in 1..Len(calls) : calls[k].S = <<>> /\ calls[k].eventType = "" /\ nMut = 0

\* ------------------------------------------------------ uploadContracts

CONTRACTS_VERSION == "1.0.0"
COMPILED_CONTRACTS_FILE_NAME == "serverless-contracts.json"
ArtifactDirectoryName == "serverless/svc/dev/1"
BucketNames == {"deployment-bucket"}
Commits == {"abc123", "def456"}
Contents == {"v1", "v2"}
LocalIds == <<"c1", "c2">>
Stores == [ContractIds -> Contents \cup {"absent"}]

\* listLocalContracts(serverless): the declared contracts keyed by id, read
\* in one synchronous call; the result is a value of its own.
listLocalContracts(store) ==
  SelectSeq([i \in 1..Len(LocalIds) |-> <<LocalIds[i], store[LocalIds[i]]>>],
            LAMBDA e : e[2] # "absent")

\* JSON.stringify of an object given as its properties in insertion order.
RECURSIVE Members(_)
Members(props) ==
  IF props = <<>> THEN <<>>
  ELSE LET m == <<"\"" \o props[1][1] \o "\"", ":", "\"" \o props[1][2] \o "\"">>
       IN IF Len(props) = 1 THEN m ELSE m \o <<",">> \o Members(Tail(props))

JSONstringify(props) == <<"{">> \o Members(props) \o <<"}">>

\* crypto.createHash('sha256').update(text).digest('base64'), as an ideal
\* hash: the digest of a text is determined by the text and by nothing else.
Sha256Base64(text) == [alg |-> "sha256", enc |-> "base64", of |-> text]

\* { ...contracts, gitCommit, contractsVersion: CONTRACTS_VERSION }
ContractsToUpload(cs, commit) ==
  cs \o << <<"gitCommit", commit>>, <<"contractsVersion", CONTRACTS_VERSION>> >>

\* Mutant: the hash is taken over the contracts before the revision fields
\* were added.
UploadParams_HashOfContracts(bucket, toUpload) ==
  [Bucket |-> bucket,
   Key |-> ArtifactDirectoryName \o "/" \o COMPILED_CONTRACTS_FILE_NAME,
   Body |-> JSONstringify(toUpload),
   ContentType |-> "application/json",
   Metadata |-> [filesha256 |->
     Sha256Base64(JSONstringify(SubSeq(toUpload, 1, Len(toUpload) - 2)))]]

\* fileHash and params.
UploadParams(bucket, toUpload) ==
  [Bucket |-> bucket,
   Key |-> ArtifactDirectoryName \o "/" \o COMPILED_CONTRACTS_FILE_NAME,
   Body |-> JSONstringify(toUpload),
   ContentType |-> "application/json",
   Metadata |-> [filesha256 |-> Sha256Base64(JSONstringify(toUpload))]]

\* uploadContracts is called: the shouldNotDeploy test and its log, then
\* getProvider and the call of getServerlessDeploymentBucketName, up to the
\* first await.  The if statement has no return.
Start ==
  /\ pc = "idle"
  /\ logs' = IF shouldNotDeploy
              THEN Append(logs, "Service files not changed. Skipping contracts upload...")
              ELSE logs
  /\ pc' = "awaitBucket"
  /\ UNCHANGED <<shouldNotDeploy, localContracts, contracts, bucketName,
                 gitCommit, gitResult, uploadResult, storeAtRead, storeAtHash,
                 revparseCalls, requests, outcome>>
  /\ UNCHANGED contractVars

\* The bucket name arrives: artifactDirectoryName, listLocalContracts,
\* simpleGit and the call of git.revparse('HEAD'), up to the second await.
BucketResolved(name) ==
  /\ pc = "awaitBucket"
  /\ bucketName' = name
  /\ contracts' = listLocalContracts(localContracts)
  /\ storeAtRead' = localContracts
  /\ revparseCalls' = revparseCalls + 1
  /\ gitResult' = "pending"
  /\ pc' = "awaitRevparse"
  /\ UNCHANGED <<shouldNotDeploy, localContracts, gitCommit, uploadResult,
                 storeAtHash, requests, logs, outcome>>
  /\ UNCHANGED contractVars

\* getServerlessDeploymentBucketName rejects: the await throws, nothing
\* catches it, the promise of uploadContracts rejects.
BucketRejected ==
  /\ pc = "awaitBucket"
  /\ pc' = "done"
  /\ outcome' = "rejected"
  /\ UNCHANGED <<shouldNotDeploy, localContracts, contracts, bucketName,
                 gitCommit, gitResult, uploadResult, storeAtRead, storeAtHash,
                 revparseCalls, requests, logs>>
  /\ UNCHANGED contractVars

\* Mutant: listLocalContracts is called after the revision lookup.
RevparseResolved_ReadAfterLookup(commit) ==
  /\ pc = "awaitRevparse"
  /\ gitResult' = "fulfilled"
  /\ gitCommit' = commit
  /\ storeAtHash' = localContracts
  /\ requests' = Append(requests,
       UploadParams(bucketName,
                    ContractsToUpload(listLocalContracts(localContracts), commit)))
  /\ logs' = Append(logs, "Uploading contracts file to S3...")
  /\ uploadResult' = "pending"
  /\ pc' = "awaitUpload"
  /\ UNCHANGED <<shouldNotDeploy, localContracts, contracts, bucketName,
                 storeAtRead, revparseCalls, outcome>>
  /\ UNCHANGED contractVars

\* The revision arrives: contractsToUpload, fileHash, params, the log and the
\* call of provider.request('S3', 'upload', params), up to the third await.
RevparseResolved(commit) ==
  /\ pc = "awaitRevparse"
  /\ gitResult' = "fulfilled"
  /\ gitCommit' = commit
  /\ storeAtHash' = localContracts
  /\ requests' = Append(requests,
       UploadParams(bucketName, ContractsToUpload(contracts, commit)))
  /\ logs' = Append(logs, "Uploading contracts file to S3...")
  /\ uploadResult' = "pending"
  /\ pc' = "awaitUpload"
  /\ UNCHANGED <<shouldNotDeploy, localContracts, contracts, bucketName,
                 storeAtRead, revparseCalls, outcome>>
  /\ UNCHANGED contractVars

\* Mutant: a failed revision lookup is caught and the upload goes on with an
\* unknown revision.
RevparseRejected_Swallowed ==
  /\ pc = "awaitRevparse"
  /\ gitResult' = "rejected"
  /\ gitCommit' = "unknown"
  /\ storeAtHash' = localContracts
  /\ requests' = Append(requests,
       UploadParams(bucketName, ContractsToUpload(contracts, "unknown")))
  /\ logs' = Append(logs, "Uploading contracts file to S3...")
  /\ uploadResult' = "pending"
  /\ pc' = "awaitUpload"
  /\ UNCHANGED <<shouldNotDeploy, localContracts, contracts, bucketName,
                 storeAtRead, revparseCalls, outcome>>
  /\ UNCHANGED contractVars

\* git.revparse rejects: the await throws, nothing catches it.
RevparseRejected ==
  /\ pc = "awaitRevparse"
  /\ gitResult' = "rejected"
  /\ pc' = "done"
  /\ outcome' = "rejected"
  /\ UNCHANGED <<shouldNotDeploy, localContracts, contracts, bucketName,
                 gitCommit, uploadResult, storeAtRead, storeAtHash,
                 revparseCalls, requests, logs>>
  /\ UNCHANGED contractVars

\* The upload request succeeds: the function returns.
UploadResolved ==
  /\ pc = "awaitUpload"
  /\ uploadResult' = "fulfilled"
  /\ pc' = "done"
  /\ outcome' = "fulfilled"
  /\ UNCHANGED <<shouldNotDeploy, localContracts, contracts, bucketName,
                 gitCommit, gitResult, storeAtRead, storeAtHash,
                 revparseCalls, requests, logs>>
  /\ UNCHANGED contractVars

\* The upload request rejects: the await throws, nothing catches it.
UploadRejected ==
  /\ pc = "awaitUpload"
  /\ uploadResult' = "rejected"
  /\ pc' = "done"
  /\ outcome' = "rejected"
  /\ UNCHANGED <<shouldNotDeploy, localContracts, contracts, bucketName,
                 gitCommit, gitResult, storeAtRead, storeAtHash,
                 revparseCalls, requests, logs>>
  /\ UNCHANGED contractVars

\* Other code of the process runs while uploadContracts is suspended at an
\* await and changes a declared contract.
MutateLocalContract(id, v) ==
  /\ pc \in {"awaitBucket", "awaitRevparse", "awaitUpload"}
  /\ localContracts[id] # v
  /\ localContracts' = [localContracts EXCEPT ![id] = v]
  /\ UNCHANGED <<pc, shouldNotDeploy, contracts, bucketName, gitCommit,
                 gitResult, uploadResult, storeAtRead, storeAtHash,
                 revparseCalls, requests, logs, outcome>>
  /\ UNCHANGED contractVars

InitUpload ==
  /\ arrays = <<>>
  /\ callerArrays = {}
  /\ descs = <<>>
  /\ calls = <<>>
  /\ thrown = 0
  /\ nMut = 0
  /\ \E flag \in BOOLEAN, store \in Stores : UploadIdle(flag, store)

NextUpload ==
  \/ Start
  \/ \E name \in BucketNames : BucketResolved(name)
  \/ BucketRejected
  \/ \E commit \in Commits : RevparseResolved(commit)
  \/ RevparseRejected
  \/ UploadResolved
  \/ UploadRejected
  \/ \E id \in ContractIds, v \in Contents \cup {"absent"} : MutateLocalContract(id, v)

SpecUpload == InitUpload /\ [][NextUpload]_vars

\* ------------------------------------------ properties of uploadContracts

C6_FailureAborts ==
  /\ Len(requests) <= 1
  /\ revparseCalls <= 1
  /\ gitResult = "rejected" => (requests = <<>> /\ pc = "done" /\ outcome = "rejected")
  /\ uploadResult = "rejected" => (pc = "done" /\ outcome = "rejected")

\* A run whose revision lookup failed.
C6_Witness ==
  /\ gitResult = "rejected"
  /\ pc = "done"

\* C7: in every upload request, Metadata.filesha256 is the digest of the
\* text sent as Body, and Body is the serialization of the local `contracts`
\* followed by gitCommit and contractsVersion.
C7_HashMatchesBody ==
  \A i \in 1..Len(requests) :
    /\ requests[i].Metadata.filesha256 = Sha256Base64(requests[i].Body)
    /\ requests[i].Body =
         JSONstringify(contracts \o << <<"gitCommit", gitCommit>>,
                                       <<"contractsVersion", CONTRACTS_VERSION>> >>)

\* A request whose body holds two contracts was issued.
C7_Witness ==
  /\ Len(requests) = 1
  /\ Len(contracts) = 2

\* C10: when shouldNotDeploy is set, the run issues no revision lookup and
\* no upload request.
C10_SkipsUpload ==
  shouldNotDeploy => (revparseCalls = 0 /\ requests = <<>>)
====
